---- MODULE Spec2Model ----
(***************************************************************************)
(* A model of messenger_wrapped's analysis engine.                         *)
(*                                                                         *)
(* A normalized message table (the frame MessengerDataLoader produces) is  *)
(* handed to MessengerAnalyzer, whose constructor filters out the          *)
(* reaction-notification messages, counts shouted words and explodes the   *)
(* reaction lists; one method of the analyzer is then called and either    *)
(* returns a value or raises.  Tables are sequences of rows (records), a   *)
(* missing cell (None / NaN) is a record with na = TRUE.                   *)
(***************************************************************************)
EXTENDS Integers, Sequences, FiniteSets, TLC

VARIABLES
    disk,          \* the chats exported under each data directory
    session_state, \* st.session_state of the application
    chats,         \* the message-batch files handed to combine_chats
    messages_df,   \* the caller's message table (argument of __init__)
    pc,            \* "input" | "constructed" | "returned" | "raised"
    messages,      \* self.messages
    reactions,     \* self.reactions
    call,          \* the method called last ("" before any call)
    arg,           \* the argument of the call (a text, a minimum length, a flag)
    ret,           \* the value the call returned
    error          \* the exception the call raised ("" when none)

vars == <<disk, session_state, chats, messages_df, pc, messages, reactions,
          call, arg, ret, error>>

-----------------------------------------------------------------------------
(* Bounds of the model *)

MaxMsgs == 2          \* rows of a message table with reactions
MaxReacts == 2        \* reaction records on one message
MaxDatedMsgs == 4     \* rows of a message table that varies in its dates
MaxDay == 6           \* days of the calendar window the dates are drawn from
MaxTextLen == 5       \* characters of an enumerated message text
MaxWordMsgs == 2      \* rows of a message table whose texts are counted
MaxWordChars == 3     \* characters typed into the texts of such a table
MaxMinWordLength == 3 \* the largest min_word_length asked for
MaxActivityMsgs == 7  \* rows of a message table that varies in sender and date
MaxActivityDay == 4   \* days such a table spans
MaxExtractMsgs == 2   \* rows of a message table whose reactions are extracted
MaxExtractReacts == 2 \* reaction records in all the rows of such a table
MaxCrossMsgs == 2     \* rows of a message table whose reactions are tabulated
MaxCrossReacts == 3   \* reaction records in all the rows of such a table
MaxFiles == 2         \* message-batch files of one conversation
MaxRawMsgs == 3       \* messages in all the files of one conversation
MaxStamp == 2         \* seconds of the window the raw timestamps are drawn from

-----------------------------------------------------------------------------
(* Values *)

HoursPerDay == 24

SecondsPerHour == 3600

SecondsPerDay == 86400

MsPerSecond == 1000

Persons == {"Alice", "Bob"}

\* Python's order on the names (sorted(), and pandas' sorted group keys).
PersonOrder == <<"Alice", "Bob">>

Emojis == {"heart"}

\* The emojis of a cross-tabulation, and the order of its index on them.
CrossEmojis == {"heart", "laugh"}

EmojiOrder == <<"heart", "laugh">>

\* margins_name of pivot_table
AllLabel == "All"

UpperLetters == {"A", "B", "C", "D", "E", "F", "G", "H", "I", "J", "K", "L", "M",
                 "N", "O", "P", "Q", "R", "S", "T", "U", "V", "W", "X", "Y", "Z"}

LowerLetters == {"a", "b", "c", "d", "e", "f", "g", "h", "i", "j", "k", "l", "m",
                 "n", "o", "p", "q", "r", "s", "t", "u", "v", "w", "x", "y", "z"}

Whitespace == {" "}

\* The characters enumerated texts are made of: an uppercase letter, a
\* lowercase letter, an uncased character and whitespace.
CharChoices == {"A", "b", "1", " "}

\* A text cell: a string (its characters) or a missing value.
Content(chars) == [na |-> FALSE, chars |-> chars]

NaContent == [na |-> TRUE, chars |-> <<>>]

\* A reactions cell: a list of reaction records or a missing value.
ReactionList(items) == [na |-> FALSE, items |-> items]

NaReactions == [na |-> TRUE, items |-> <<>>]

\* A time in Unix seconds, or the missing value x.get('timestamp') gives for a
\* reaction record without that key.
Time(sec) == [na |-> FALSE, sec |-> sec]

NaTime == [na |-> TRUE, sec |-> 0]

\* One reaction record of the export: {"reaction": emoji, "actor": name}.
Reaction(actor, emoji) == [actor |-> actor, reaction |-> emoji, timestamp |-> NaTime]

\* A reaction record that carries its time:
\* {"reaction": emoji, "actor": name, "timestamp": sec}.
TimedReaction(actor, emoji, sec) ==
    [actor |-> actor, reaction |-> emoji, timestamp |-> Time(sec)]

\* The outcome of a call that raises nothing.
NoError == ""

Range(s) == {s[i] : i \in DOMAIN s}

RECURSIVE SumSeq(_)
SumSeq(s) == IF s = <<>> THEN 0 ELSE Head(s) + SumSeq(Tail(s))

RECURSIVE Flatten(_)
Flatten(ss) == IF ss = <<>> THEN <<>> ELSE Head(ss) \o Flatten(Tail(ss))

Min(S) == CHOOSE x \in S : \A y \in S : x <= y

Max(S) == CHOOSE x \in S : \A y \in S : x >= y

\* sorted(S) for a set of integers.
RECURSIVE SortedInts(_)
SortedInts(S) == IF S = {} THEN <<>> ELSE <<Min(S)>> \o SortedInts(S \ {Min(S)})

\* sorted(S) for a set of names.
SortedNames(S) == SelectSeq(PersonOrder, LAMBDA p : p \in S)

NameIndex(p) == CHOOSE i \in DOMAIN PersonOrder : PersonOrder[i] = p

-----------------------------------------------------------------------------
(* Text: str.split() and str.isupper() *)

\* text.split(): the maximal runs of non-whitespace characters, in order.
RECURSIVE SplitFrom(_, _, _)
SplitFrom(chars, word, words) ==
    IF chars = <<>>
    THEN IF word = <<>> THEN words ELSE Append(words, word)
    ELSE IF Head(chars) \in Whitespace
         THEN SplitFrom(Tail(chars), <<>>,
                        IF word = <<>> THEN words ELSE Append(words, word))
         ELSE SplitFrom(Tail(chars), Append(word, Head(chars)), words)

split(chars) == SplitFrom(chars, <<>>, <<>>)

\* str.isupper(): at least one cased character and no lowercase one.
isupper(word) ==
    /\ \E i \in DOMAIN word : word[i] \in UpperLetters
    /\ \A i \in DOMAIN word : word[i] \notin LowerLetters

\* is_shouting without the length test.
is_shouting_any_length(word) == isupper(word)

is_shouting(word) == isupper(word) /\ Len(word) > 1

\* MessengerAnalyzer._count_shouted_words
count_shouted_words(text) ==
    IF text.na
    THEN 0
    ELSE Len(SelectSeq(split(text.chars), is_shouting))

-----------------------------------------------------------------------------
(* MessengerAnalyzer._get_word_counts and _clean_word *)

Digits == {"0", "1", "2", "3", "4", "5", "6", "7", "8", "9"}

Alphabet == <<"a", "b", "c", "d", "e", "f", "g", "h", "i", "j", "k", "l", "m",
              "n", "o", "p", "q", "r", "s", "t", "u", "v", "w", "x", "y", "z">>

Capitals == <<"A", "B", "C", "D", "E", "F", "G", "H", "I", "J", "K", "L", "M",
              "N", "O", "P", "Q", "R", "S", "T", "U", "V", "W", "X", "Y", "Z">>

\* str.lower()
lower(chars) ==
    [i \in DOMAIN chars |->
        IF chars[i] \in UpperLetters
        THEN Alphabet[CHOOSE k \in DOMAIN Capitals : Capitals[k] = chars[i]]
        ELSE chars[i]]

\* The characters the texts of a word count are made of: two letters, a
\* capital, a digit, a punctuation mark and whitespace.
WordChars == {"h", "e", "H", "1", ",", " "}

\* stopwords.words('english'), as far as words over WordChars go.
stop_words == {<<"h", "e">>}

\* word_tokenize(text), for texts over WordChars: the tokens are the runs of
\* characters between whitespace, and a comma that no digit follows is a
\* token of its own ("heh,heh" gives heh , heh while "1,1" stays whole).
RECURSIVE TokenizeFrom(_, _, _)
TokenizeFrom(chars, word, tokens) ==
    LET flushed == IF word = <<>> THEN tokens ELSE Append(tokens, word)
    IN  IF chars = <<>> THEN flushed
        ELSE IF Head(chars) \in Whitespace
             THEN TokenizeFrom(Tail(chars), <<>>, flushed)
             ELSE IF Head(chars) = "," /\ (Len(chars) = 1 \/ chars[2] \notin Digits)
                  THEN TokenizeFrom(Tail(chars), <<>>, Append(flushed, <<",">>))
                  ELSE TokenizeFrom(Tail(chars), Append(word, Head(chars)), tokens)

word_tokenize(chars) == TokenizeFrom(chars, <<>>, <<>>)

\* The characters [^\w\s] leaves in place.
WordCharacters == UpperLetters \cup LowerLetters \cup Digits \cup {"_"} \cup Whitespace

\* MessengerAnalyzer._clean_word: re.sub(r'[^\w\s]', '', word.lower())
clean_word(word) == SelectSeq(lower(word), LAMBDA c : c \in WordCharacters)

\* str.isalpha(): at least one character, and letters only.
isalpha(word) ==
    /\ word # <<>>
    /\ \A i \in DOMAIN word : word[i] \in UpperLetters \cup LowerLetters

\* The filter of message_words without its isalpha() test.
KeptWordAnyCharacter(word, min_word_length) ==
    /\ word # <<>>
    /\ Len(word) >= min_word_length
    /\ word \notin stop_words

\* The filter of the list message_words: a cleaned token is kept when it is
\* not empty, not short, no stop word and alphabetic.
KeptWord(word, min_word_length) ==
    /\ word # <<>>
    /\ Len(word) >= min_word_length
    /\ word \notin stop_words
    /\ isalpha(word)

\* message_words of one content cell; a cell that is no string is skipped.
message_words(content, min_word_length) ==
    IF content.na THEN <<>>
    ELSE LET tokens == word_tokenize(lower(content.chars))
             cleaned == [i \in DOMAIN tokens |-> clean_word(tokens[i])]
         IN  SelectSeq(cleaned, LAMBDA w : KeptWord(w, min_word_length))

\* Counter(words): one entry per distinct word, in the order of the first
\* occurrences.
RECURSIVE Counter(_)
Counter(words) ==
    IF words = <<>> THEN <<>>
    ELSE LET before == Counter(SubSeq(words, 1, Len(words) - 1))
             w == words[Len(words)]
         IN  IF \E i \in DOMAIN before : before[i].word = w
             THEN [i \in DOMAIN before |->
                     IF before[i].word = w
                     THEN [before[i] EXCEPT !.count = @ + 1]
                     ELSE before[i]]
             ELSE Append(before, [word |-> w, count |-> 1])

RECURSIVE InsertByCount(_, _)
InsertByCount(sorted, item) ==
    IF sorted = <<>> THEN <<item>>
    ELSE IF Head(sorted).count >= item.count
         THEN <<Head(sorted)>> \o InsertByCount(Tail(sorted), item)
         ELSE <<item>> \o sorted

\* sorted(word_counts.items(), key=lambda x: x[1], reverse=True): sorted() is
\* stable, also in reverse.
RECURSIVE SortByCount(_)
SortByCount(items) ==
    IF items = <<>> THEN <<>>
    ELSE InsertByCount(SortByCount(SubSeq(items, 1, Len(items) - 1)),
                       items[Len(items)])

\* MessengerAnalyzer._get_word_counts: the mapping as its items in order.
get_word_counts(msgs, min_word_length) ==
    SortByCount(Counter(Flatten([i \in DOMAIN msgs |->
                    message_words(msgs[i].content, min_word_length)])))

-----------------------------------------------------------------------------
(* Calendar: dates are day numbers of a window that starts 2022-12-29 *)

IsLeap(y) == (y % 4 = 0 /\ y % 100 # 0) \/ y % 400 = 0

DaysInMonth(y, m) ==
    IF m = 2 THEN (IF IsLeap(y) THEN 29 ELSE 28)
    ELSE IF m \in {4, 6, 9, 11} THEN 30 ELSE 31

NextDay(d) ==
    IF d.day < DaysInMonth(d.year, d.month)
    THEN [d EXCEPT !.day = d.day + 1]
    ELSE IF d.month < 12
         THEN [d EXCEPT !.month = d.month + 1, !.day = 1]
         ELSE [year |-> d.year + 1, month |-> 1, day |-> 1]

\* The calendar date of day number n (day 1 is 2022-12-30, day 3 is 2023-01-01).
RECURSIVE DateOf(_)
DateOf(n) ==
    IF n = 0 THEN [year |-> 2022, month |-> 12, day |-> 29]
    ELSE NextDay(DateOf(n - 1))

Pad2(n) == IF n < 10 THEN "0" \o ToString(n) ELSE ToString(n)

\* date.strftime('%Y-%m-%d')
strftime(n) ==
    LET d == DateOf(n)
    IN  ToString(d.year) \o "-" \o Pad2(d.month) \o "-" \o Pad2(d.day)

-----------------------------------------------------------------------------
(* Message tables *)

\* One row of the normalized message table.  The clock of the model counts
\* milliseconds of local time from the midnight that starts day 0: the row's
\* timestamp is the start of its hour.
Message(sender, content, is_reaction, reacts, date, hour) ==
    [message_id |-> 0,
     sender_name |-> sender,
     content |-> content,
     num_words |-> IF content.na THEN 0 ELSE Len(split(content.chars)),
     is_reaction |-> is_reaction,
     reactions |-> reacts,
     timestamp |-> (date * HoursPerDay + hour) * SecondsPerHour * MsPerSecond,
     date |-> date,
     hour |-> hour]

DefaultContent == Content(<<"O", "K">>)

\* "Bob reacted x to your message"
NotificationContent ==
    Content(<<"B", "o", "b", " ", "r", "e", "a", "c", "t", "e", "d", " ", "x", " ",
              "t", "o", " ", "y", "o", "u", "r", " ", "m", "e", "s", "s", "a", "g", "e">>)

\* The lists of at most n reaction records.
RECURSIVE ReactionSeqs(_)
ReactionSeqs(n) ==
    IF n = 0 THEN {<<>>}
    ELSE LET shorter == ReactionSeqs(n - 1)
         IN  shorter \cup
             {Append(s, Reaction(p, e)) : s \in shorter, p \in Persons, e \in Emojis}

\* Rows that vary in sender and reactions: a reaction-notification message,
\* or a message with no reactions cell, an empty list or up to MaxReacts records.
ReactionMsgs ==
    {Message(p, DefaultContent, TRUE, NaReactions, 1, 0) : p \in Persons}
    \cup {Message(p, DefaultContent, FALSE, NaReactions, 1, 0) : p \in Persons}
    \cup {Message(p, DefaultContent, FALSE, ReactionList(s), 1, 0) :
             p \in Persons, s \in ReactionSeqs(MaxReacts)}

\* Rows that vary in sender and hour of day.
HourMsgs ==
    {Message(p, DefaultContent, r, NaReactions, 1, h) :
        p \in Persons, r \in BOOLEAN, h \in 0 .. (HoursPerDay - 1)}

\* Rows that vary in their calendar date.
DatedMsgs ==
    {Message("Alice", DefaultContent, FALSE, NaReactions, d, 0) : d \in 1 .. MaxDay}
    \cup {Message("Alice", DefaultContent, TRUE, NaReactions, 1, 0)}

\* Rows that vary in sender and calendar date.
ActivityMsgs ==
    {Message(p, DefaultContent, FALSE, NaReactions, d, 0) :
        p \in Persons, d \in 1 .. MaxActivityDay}

\* The rows that can follow the last row of a table sorted by timestamp.
RowsInOrder(df, Rows) ==
    {m \in Rows : df = <<>> \/ df[Len(df)].timestamp <= m.timestamp}

\* Rows to attach reactions to, all of day 1: a message with no reactions
\* cell or with an empty list, sent at midnight; a message sent half a second
\* later; a reaction notification.
ExtractMsgs ==
    {Message(p, DefaultContent, FALSE, r, 1, 0) :
        p \in Persons, r \in {NaReactions, ReactionList(<<>>)}}
    \cup {[Message("Alice", DefaultContent, FALSE, NaReactions, 1, 0)
             EXCEPT !.timestamp = @ + MsPerSecond \div 2]}
    \cup {Message("Bob", NotificationContent, TRUE, NaReactions, 1, 0)}

\* Reaction records with a time one second before the midnight of day 1,
\* five seconds after it, or a day and five seconds after it, or with none.
TimedReactions ==
    {Reaction("Bob", "heart")}
    \cup {TimedReaction("Bob", "heart", t) :
             t \in {SecondsPerDay - 1, SecondsPerDay + 5, 2 * SecondsPerDay + 5}}

\* The reaction records of all the rows of a table.
TotalReactions(df) == SumSeq([i \in DOMAIN df |-> Len(df[i].reactions.items)])

\* Rows to attach reactions to, and reaction records that vary in reactor and
\* emoji.
CrossMsgs ==
    {Message(p, DefaultContent, FALSE, NaReactions, 1, 0) : p \in Persons}

CrossReactions == {Reaction(p, e) : p \in Persons, e \in CrossEmojis}

\* "heh,heh", and "heh he h1 h": a word, a stop word, a token with a digit
\* and a single letter.
WordScenarioTexts ==
    {<<"h", "e", "h", ",", "h", "e", "h">>,
     <<"h", "e", "h", " ", "h", "e", " ", "h", "1", " ", "h">>}

\* Rows that vary in their text: no content, an empty text to be typed into,
\* or a whole text.  Each carries a reaction, so that analyze() has reaction
\* rows to tabulate.
WordMsgs ==
    {Message("Alice", c, FALSE, ReactionList(<<Reaction("Bob", "heart")>>), 1, 0) :
        c \in {NaContent, Content(<<>>)} \cup {Content(t) : t \in WordScenarioTexts}}

\* The characters of all the texts of a table.
TotalChars(df) == SumSeq([i \in DOMAIN df |-> Len(df[i].content.chars)])

-----------------------------------------------------------------------------
(* MessengerDataLoader.to_dataframe and combine_chats *)

\* The fixed parts of the pattern r'reacted .* to your message'.
PatternHead == <<"r", "e", "a", "c", "t", "e", "d", " ">>

PatternTail == <<" ", "t", "o", " ", "y", "o", "u", "r", " ",
                 "m", "e", "s", "s", "a", "g", "e">>

\* pat occurs in chars from position i on.
OccursAt(chars, pat, i) ==
    /\ i + Len(pat) - 1 <= Len(chars)
    /\ SubSeq(chars, i, i + Len(pat) - 1) = pat

\* df['content'].fillna('').str.contains(r'reacted .* to your message',
\* case=False, regex=True)
is_reaction(content) ==
    /\ ~content.na
    /\ \E i, j \in DOMAIN content.chars :
          /\ OccursAt(lower(content.chars), PatternHead, i)
          /\ j >= i + Len(PatternHead)
          /\ OccursAt(lower(content.chars), PatternTail, j)

\* One message of a batch file.
RawMessage(sender, timestamp_ms, content) ==
    [sender_name |-> sender, timestamp_ms |-> timestamp_ms, content |-> content]

RawMsgs ==
    {RawMessage(p, k * MsPerSecond, c) :
        p \in {"Alice"}, k \in 1 .. MaxStamp,
        c \in {DefaultContent, NaContent, NotificationContent}}

\* The row to_dataframe makes of one message: the timestamp, and the date,
\* hour, word count and notification flag derived from it and the content.
to_dataframe_row(raw) ==
    [message_id |-> 0,
     sender_name |-> raw.sender_name,
     content |-> raw.content,
     num_words |-> IF raw.content.na THEN 0 ELSE Len(split(raw.content.chars)),
     is_reaction |-> is_reaction(raw.content),
     reactions |-> NaReactions,
     timestamp |-> raw.timestamp_ms,
     date |-> raw.timestamp_ms \div (SecondsPerDay * MsPerSecond),
     hour |-> (raw.timestamp_ms % (SecondsPerDay * MsPerSecond))
                 \div (SecondsPerHour * MsPerSecond)]

\* to_dataframe raises KeyError on a file without messages (no timestamp_ms
\* column) and on one whose messages all lack a content (no content column).
to_dataframe_raises(chat) ==
    \A i \in DOMAIN chat : chat[i].content.na

\* MessengerDataLoader.to_dataframe, when it does not raise.
to_dataframe(chat, remove_reactions) ==
    LET df == [i \in DOMAIN chat |-> to_dataframe_row(chat[i])]
    IN  IF remove_reactions
        THEN SelectSeq(df, LAMBDA row : ~row.is_reaction)
        ELSE df

\* The rows left in the order pd.concat gave them.
KeepOrder(rows) == rows

RECURSIVE InsertByTimestamp(_, _)
InsertByTimestamp(sorted, row) ==
    IF sorted = <<>> THEN <<row>>
    ELSE IF Head(sorted).timestamp <= row.timestamp
         THEN <<Head(sorted)>> \o InsertByTimestamp(Tail(sorted), row)
         ELSE <<row>> \o sorted

\* df.sort_values('timestamp'): on tables this small the sort is an insertion
\* sort, rows with equal timestamps keep their order.
RECURSIVE SortByTimestamp(_)
SortByTimestamp(rows) ==
    IF rows = <<>> THEN <<>>
    ELSE InsertByTimestamp(SortByTimestamp(SubSeq(rows, 1, Len(rows) - 1)),
                           rows[Len(rows)])

\* MessengerDataLoader.combine_chats, when it does not raise: concat, sort,
\* and message_id from the new index.
combine_chats(files, remove_reactions) ==
    LET df == Flatten([i \in DOMAIN files |-> to_dataframe(files[i], remove_reactions)])
        sorted == SortByTimestamp(df)
    IN  [i \in DOMAIN sorted |-> [sorted[i] EXCEPT !.message_id = i - 1]]

\* How combine_chats can end: pd.concat of no frame raises ValueError.
CombineOutcomes(files) ==
    IF \E i \in DOMAIN files : to_dataframe_raises(files[i]) THEN {"KeyError"}
    ELSE IF files = <<>> THEN {"ValueError"}
    ELSE {NoError}

-----------------------------------------------------------------------------
(* MessengerAnalyzer.__init__ and _extract_reactions *)

\* messages_df[~messages_df['is_reaction']].copy(), with the shouted_words column.
FilterMessages(df) ==
    LET kept == SelectSeq(df, LAMBDA m : ~m.is_reaction)
    IN  [i \in DOMAIN kept |->
            [message_id |-> kept[i].message_id,
             sender_name |-> kept[i].sender_name,
             content |-> kept[i].content,
             num_words |-> kept[i].num_words,
             is_reaction |-> kept[i].is_reaction,
             reactions |-> kept[i].reactions,
             timestamp |-> kept[i].timestamp,
             date |-> kept[i].date,
             hour |-> kept[i].hour,
             shouted_words |-> count_shouted_words(kept[i].content)]]

\* self.messages[~self.messages['reactions'].isna()]: a list, even an empty
\* one, is not a missing value.
messages_with_reactions(msgs) == SelectSeq(msgs, LAMBDA m : ~m.reactions.na)

\* explode('reactions') turns an empty list into one row whose reaction is
\* NaN, and x['reaction'] on that NaN raises TypeError.
ExtractRaises(msgs) ==
    \E i \in DOMAIN msgs : ~msgs[i].reactions.na /\ msgs[i].reactions.items = <<>>

\* tuple(sorted([reactor, recipient]))
SortedPair(reactor, recipient) ==
    IF NameIndex(reactor) <= NameIndex(recipient)
    THEN <<reactor, recipient>>
    ELSE <<recipient, reactor>>

\* Timedelta.total_seconds() in place of .seconds: the whole delta.
dt_total_seconds(delta_ms) == delta_ms \div MsPerSecond

\* .dt.seconds of a timedelta: the seconds component, 0 <= seconds < 86400,
\* of the delta once its (possibly negative) whole days are taken out.
dt_seconds(delta_ms) == (delta_ms % (SecondsPerDay * MsPerSecond)) \div MsPerSecond

\* (reaction_timestamp - message_timestamp).dt.seconds; a reaction without
\* timestamp has reaction_timestamp NaT and a missing latency.
reaction_timedelta_sec(reaction_timestamp, message_timestamp) ==
    IF reaction_timestamp.na
    THEN [na |-> TRUE, sec |-> 0]
    ELSE [na |-> FALSE,
          sec |-> dt_seconds(reaction_timestamp.sec * MsPerSecond - message_timestamp)]

\* The exploded rows of one message: one per reaction record, each carrying
\* the parent's message_id, sender_name and timestamp.
ExplodeRow(m) ==
    [k \in DOMAIN m.reactions.items |->
        [message_id |-> m.message_id,
         sender_name |-> m.sender_name,
         message_timestamp |-> m.timestamp,
         recipient |-> m.sender_name,
         emoji |-> m.reactions.items[k].reaction,
         reactor |-> m.reactions.items[k].actor,
         reaction_timestamp |-> m.reactions.items[k].timestamp,
         reaction_timedelta_sec |->
            reaction_timedelta_sec(m.reactions.items[k].timestamp, m.timestamp),
         pair |-> SortedPair(m.reactions.items[k].actor, m.sender_name)]]

\* MessengerAnalyzer._extract_reactions (when it does not raise)
extract_reactions(msgs) ==
    LET with == messages_with_reactions(msgs)
    IN  Flatten([i \in DOMAIN with |-> ExplodeRow(with[i])])

\* The caller's table if self.messages were that table itself: the
\* shouted_words column would be written into the caller's rows.
CallerTableShared(df) ==
    [i \in DOMAIN df |->
        [f \in DOMAIN df[i] \cup {"shouted_words"} |->
            IF f = "shouted_words" THEN count_shouted_words(df[i].content)
            ELSE df[i][f]]]

\* The caller's table once __init__ has run: messages_df[...] selects into a
\* new frame and .copy() copies it, so the shouted_words column goes to
\* self.messages alone, and _extract_reactions reads self.messages into
\* frames of its own (explode, rename and the column assignments work on the
\* .copy() of line 65).
CallerTableAfterInit(df) == df

\* How __init__ can end: NoError, or the exception raised.  An empty reaction
\* list raises TypeError in _extract_reactions.  With no reaction row at all,
\* reactions.apply(..., axis=1) runs on an empty frame: depending on the
\* pandas release it yields an empty column, or a copy of the frame whose
\* assignment to reactions['pair'] raises ValueError.
ConstructOutcomes(msgs) ==
    IF ExtractRaises(msgs) THEN {"TypeError"}
    ELSE IF extract_reactions(msgs) = <<>> THEN {NoError, "ValueError"}
    ELSE {NoError}

-----------------------------------------------------------------------------
(* MessengerAnalyzer._analyze_reactions and _get_person_stats *)

Reactors(reacts) == {r.reactor : r \in Range(reacts)}

Recipients(reacts) == {r.sender_name : r \in Range(reacts)}

\* groupby('reactor').size(): the number of rows per key.
reacts_sent(reacts, p) == Len(SelectSeq(reacts, LAMBDA r : r.reactor = p))

\* reacts_received counting only the reactions of other people.
reacts_received_from_others(reacts, p) ==
    Len(SelectSeq(reacts, LAMBDA r : r.sender_name = p /\ r.reactor # p))

\* groupby('sender_name').size()
reacts_received(reacts, p) == Len(SelectSeq(reacts, LAMBDA r : r.sender_name = p))

\* The label fillna(0) puts in a key cell the outer merge left missing.
FilledKey == "0"

\* pd.merge(how='outer', left_on='reactor', right_on='sender_name').fillna(0),
\* then drop(columns=['sender_name']) and the renaming of the three columns
\* left: the label of a row is its 'reactor' cell, which the merge leaves
\* missing for a key found only on the right.
MergedRow(reacts, p) ==
    [sender_name |-> IF p \in Reactors(reacts) THEN p ELSE FilledKey,
     reactions_sent |-> IF p \in Reactors(reacts) THEN reacts_sent(reacts, p) ELSE 0,
     reactions_received |->
        IF p \in Recipients(reacts) THEN reacts_received(reacts, p) ELSE 0]

\* The keys of a merge with how='inner'.
MergeKeysInner(reacts) == Reactors(reacts) \cap Recipients(reacts)

\* The keys the merge keeps: how='outer' keeps the keys of either side.
MergeKeys(reacts) == Reactors(reacts) \cup Recipients(reacts)

RECURSIVE InsertByReceived(_, _)
InsertByReceived(sorted, row) ==
    IF sorted = <<>> THEN <<row>>
    ELSE IF Head(sorted).reactions_received >= row.reactions_received
         THEN <<Head(sorted)>> \o InsertByReceived(Tail(sorted), row)
         ELSE <<row>> \o sorted

\* sort_values('reactions_received', ascending=False); rows with equal counts
\* keep their order.
RECURSIVE SortByReceived(_)
SortByReceived(rows) ==
    IF rows = <<>> THEN <<>>
    ELSE InsertByReceived(SortByReceived(SubSeq(rows, 1, Len(rows) - 1)),
                          rows[Len(rows)])

\* MessengerAnalyzer._analyze_reactions (without the ratio column)
analyze_reactions(reacts) ==
    LET keys == SortedNames(MergeKeys(reacts))
        merged == [i \in DOMAIN keys |-> MergedRow(reacts, keys[i])]
    IN  SortByReceived(merged)

Senders(msgs) == {m.sender_name : m \in Range(msgs)}

\* self.messages.groupby('sender_name', as_index=False).agg(...): one row per
\* sender; a sum skips the missing num_words of a message without content.
message_stats(msgs) ==
    LET keys == SortedNames(Senders(msgs))
    IN  [i \in DOMAIN keys |->
            LET mine == SelectSeq(msgs, LAMBDA m : m.sender_name = keys[i])
            IN  [sender_name |-> keys[i],
                 messages_sent |-> Len(mine),
                 words_sent |-> SumSeq([j \in DOMAIN mine |-> mine[j].num_words]),
                 words_shouted |->
                    SumSeq([j \in DOMAIN mine |-> mine[j].shouted_words])]]

\* The rows of message_stats.merge(reaction_stats, on='sender_name') that one
\* row of message_stats yields: how='inner' keeps a key found on both sides.
InnerMatches(left, right) ==
    LET hits == SelectSeq(right, LAMBDA r : r.sender_name = left.sender_name)
    IN  [j \in DOMAIN hits |->
            [sender_name |-> left.sender_name,
             messages_sent |-> left.messages_sent,
             words_sent |-> left.words_sent,
             words_shouted |-> left.words_shouted,
             reactions_sent |-> hits[j].reactions_sent,
             reactions_received |-> hits[j].reactions_received]]

\* MessengerAnalyzer._get_person_stats (without the percentage column)
get_person_stats(msgs, reacts) ==
    LET left == message_stats(msgs)
        right == analyze_reactions(reacts)
    IN  Flatten([i \in DOMAIN left |-> InnerMatches(left[i], right)])

-----------------------------------------------------------------------------
(* MessengerAnalyzer._analyze_reactions_received and _analyze_reactions_sent *)

SortedEmojis(S) == SelectSeq(EmojiOrder, LAMBDA e : e \in S)

\* groupby(['emoji', column]).agg(num_reacts=('reaction_timestamp', 'size')):
\* the number of reaction rows of one emoji and one person; size counts a row
\* whatever its reaction_timestamp.
num_reacts(reacts, emoji, column, person) ==
    Len(SelectSeq(reacts, LAMBDA r : r.emoji = emoji /\ r[column] = person))

\* pivot_table(index='emoji', columns=column, values='num_reacts',
\* margins=True, aggfunc='sum', fill_value=0): one row per emoji that occurs,
\* in the order of the index, one cell per person that occurs in the column,
\* 0 for a combination without reaction; the margin column 'All' sums the
\* groups of the emoji, the margin row 'All', which comes last, sums the
\* groups of each person and holds the grand total.
pivot_table(reacts, column) ==
    LET emojis == SortedEmojis({r.emoji : r \in Range(reacts)})
        people == {r[column] : r \in Range(reacts)}
        order == SortedNames(people)
    IN  [i \in DOMAIN emojis |->
            [emoji |-> emojis[i],
             counts |-> [q \in people |-> num_reacts(reacts, emojis[i], column, q)],
             All |-> SumSeq([k \in DOMAIN order |->
                        num_reacts(reacts, emojis[i], column, order[k])])]]
        \o <<[emoji |-> AllLabel,
              counts |-> [q \in people |->
                            SumSeq([i \in DOMAIN emojis |->
                                num_reacts(reacts, emojis[i], column, q)])],
              All |-> SumSeq([i \in DOMAIN emojis |->
                         SumSeq([k \in DOMAIN order |->
                            num_reacts(reacts, emojis[i], column, order[k])])])]>>

\* The table left in the order of pivot_table.
LeaveUnsorted(rows) == rows

RECURSIVE InsertByAll(_, _)
InsertByAll(sorted, row) ==
    IF sorted = <<>> THEN <<row>>
    ELSE IF Head(sorted).All >= row.All
         THEN <<Head(sorted)>> \o InsertByAll(Tail(sorted), row)
         ELSE <<row>> \o sorted

\* sort_values(by='All', ascending=False): on tables this small the sort is
\* an insertion sort, and rows with equal totals keep the order of the pivot
\* table, where the margin row is the last one.
RECURSIVE SortByAll(_)
SortByAll(rows) ==
    IF rows = <<>> THEN <<>>
    ELSE InsertByAll(SortByAll(SubSeq(rows, 1, Len(rows) - 1)), rows[Len(rows)])

\* MessengerAnalyzer._analyze_reactions_received (on at least one reaction)
analyze_reactions_received(reacts) == SortByAll(pivot_table(reacts, "recipient"))

\* MessengerAnalyzer._analyze_reactions_sent (on at least one reaction)
analyze_reactions_sent(reacts) == SortByAll(pivot_table(reacts, "reactor"))

\* How the two cross-tabulations can end: with no reaction row the pivot
\* table has nothing to add margins to; pivot_table(margins=True) raises
\* ValueError, or returns a table without 'All' on which sort_values raises
\* KeyError, depending on the pandas release.
CrosstabOutcomes(reacts) ==
    IF reacts = <<>> THEN {"ValueError", "KeyError"} ELSE {NoError}

\* DataFrame.head()
HeadRows == 5

\* stats.iloc[1:, :-1].head() of show_most_received_reactions and
\* show_most_sent_reactions: the table without its first row and its last
\* column ('All'), cut to five rows.
top5(stats) ==
    LET rest == SubSeq(stats, 2, Len(stats))
        head == SubSeq(rest, 1, Min({HeadRows, Len(rest)}))
    IN  [i \in DOMAIN head |-> [emoji |-> head[i].emoji, counts |-> head[i].counts]]

-----------------------------------------------------------------------------
(* MessengerAnalyzer._analyze_hourly_patterns *)

Hours(msgs) == {m.hour : m \in Range(msgs)}

\* groupby(['sender_name', 'hour']).size().unstack(fill_value=0).T, the 'All'
\* column and reset_index(): one row per hour that occurs in self.messages,
\* one count per sender that occurs in it.
analyze_hourly_patterns(msgs) ==
    LET hours == SortedInts(Hours(msgs))
    IN  [i \in DOMAIN hours |->
            [hour |-> hours[i],
             counts |-> [p \in Senders(msgs) |->
                            Len(SelectSeq(msgs, LAMBDA m : m.sender_name = p
                                                           /\ m.hour = hours[i]))],
             All |-> LET cols == SortedNames(Senders(msgs))
                     IN  SumSeq([k \in DOMAIN cols |->
                            Len(SelectSeq(msgs, LAMBDA m : m.sender_name = cols[k]
                                                           /\ m.hour = hours[i]))])]]

-----------------------------------------------------------------------------
(* MessengerAnalyzer._analyze_activity_patterns *)

\* .rolling(7)
RollingWindow == 7

\* groupby(['date', 'sender_name']).agg(num_messages=('date', 'size')): one
\* row per (date, sender) that occurs, sorted by date and then by sender.
messages_by_date_and_sender(msgs) ==
    LET dates == SortedInts({m.date : m \in Range(msgs)})
    IN  Flatten([i \in DOMAIN dates |->
            LET senders == SortedNames({m.sender_name :
                               m \in {x \in Range(msgs) : x.date = dates[i]}})
            IN  [k \in DOMAIN senders |->
                    [date |-> dates[i],
                     sender_name |-> senders[k],
                     num_messages |->
                        Len(SelectSeq(msgs, LAMBDA m : m.date = dates[i]
                                          /\ m.sender_name = senders[k]))]]])

\* .rolling(7).mean() on that frame: the window runs down the rows of the
\* frame, whatever their sender; a row with fewer than 7 rows up to it gets
\* NaN.  The mean is kept as its numerator, the sum of the 7 counts.
rolling_mean(rows) ==
    [k \in DOMAIN rows |->
        [date |-> rows[k].date,
         sender_name |-> rows[k].sender_name,
         num_messages |->
            IF k < RollingWindow
            THEN [na |-> TRUE, sevenths |-> 0]
            ELSE [na |-> FALSE,
                  sevenths |-> SumSeq([j \in 1 .. RollingWindow |->
                                  rows[k - RollingWindow + j].num_messages])]]]

\* pivot_table(index='date', columns='sender_name', values='num_messages',
\* fill_value=0, margins=True, aggfunc='sum').iloc[:-1, :]: one row per date,
\* one cell per sender; the sum of a NaN is 0 and a missing combination is
\* filled with 0.  The margin column sums the rows without NaN, and is
\* missing for a date that has none.
activity_pivot(rolled) ==
    LET dates == SortedInts({r.date : r \in Range(rolled)})
        senders == {r.sender_name : r \in Range(rolled)}
        defined(d) == SelectSeq(rolled, LAMBDA r : r.date = d /\ ~r.num_messages.na)
    IN  [i \in DOMAIN dates |->
            [date |-> dates[i],
             counts |-> [p \in senders |->
                 LET mine == SelectSeq(defined(dates[i]), LAMBDA r : r.sender_name = p)
                 IN  SumSeq([j \in DOMAIN mine |-> mine[j].num_messages.sevenths])],
             All |-> [na |-> defined(dates[i]) = <<>>,
                      sevenths |-> SumSeq([j \in DOMAIN defined(dates[i]) |->
                                      defined(dates[i])[j].num_messages.sevenths])]]]

\* MessengerAnalyzer._analyze_activity_patterns
analyze_activity_patterns(msgs) ==
    activity_pivot(rolling_mean(messages_by_date_and_sender(msgs)))

\* How _analyze_activity_patterns can end: on no message at all the pivot
\* table has nothing to add margins to, and pivot_table(margins=True) raises
\* ValueError or returns the empty table, depending on the pandas release.
ActivityOutcomes(msgs) ==
    IF msgs = <<>> THEN {NoError, "ValueError"} ELSE {NoError}

-----------------------------------------------------------------------------
(* MessengerAnalyzer.get_streak_info and find_longest_active_streak *)

\* sorted(self.messages['date'].unique())
UniqueDates(msgs) == SortedInts({m.date : m \in Range(msgs)})

\* The loop body with current_streak >= max_streak: the latest run wins a tie.
StreakStepLatestWins(dates, i, st) ==
    IF dates[i] - dates[i - 1] = 1
    THEN IF st.current_streak + 1 >= st.max_streak
         THEN [st EXCEPT !.current_streak = st.current_streak + 1,
                         !.max_streak = st.current_streak + 1,
                         !.max_start = st.start_date,
                         !.max_end = dates[i]]
         ELSE [st EXCEPT !.current_streak = st.current_streak + 1]
    ELSE [st EXCEPT !.current_streak = 1, !.start_date = dates[i]]

\* The loop body without the comparison: every longer current run is recorded
\* as the maximum.
StreakStepUnguarded(dates, i, st) ==
    IF dates[i] - dates[i - 1] = 1
    THEN [st EXCEPT !.current_streak = st.current_streak + 1,
                    !.max_streak = st.current_streak + 1,
                    !.max_start = st.start_date,
                    !.max_end = dates[i]]
    ELSE [st EXCEPT !.current_streak = 1, !.start_date = dates[i]]

\* One pass of the loop body of get_streak_info, for i (counted from 1).
StreakStep(dates, i, st) ==
    IF dates[i] - dates[i - 1] = 1
    THEN IF st.current_streak + 1 > st.max_streak
         THEN [st EXCEPT !.current_streak = st.current_streak + 1,
                         !.max_streak = st.current_streak + 1,
                         !.max_start = st.start_date,
                         !.max_end = dates[i]]
         ELSE [st EXCEPT !.current_streak = st.current_streak + 1]
    ELSE [st EXCEPT !.current_streak = 1, !.start_date = dates[i]]

\* for i in range(1, len(dates))
RECURSIVE StreakLoop(_, _, _)
StreakLoop(dates, i, st) ==
    IF i > Len(dates) THEN st
    ELSE StreakLoop(dates, i + 1, StreakStep(dates, i, st))

\* MessengerAnalyzer.get_streak_info, for a table with at least one date.
get_streak_info(msgs) ==
    LET dates == UniqueDates(msgs)
        st == StreakLoop(dates, 2,
                         [max_streak |-> 1, current_streak |-> 1,
                          max_start |-> dates[1], max_end |-> dates[1],
                          start_date |-> dates[1]])
    IN  [max_streak |-> st.max_streak,
         max_start |-> strftime(st.max_start),
         max_end |-> strftime(st.max_end)]

\* One pass of the loop body of find_longest_active_streak.
LongestStep(dates, i, st) ==
    IF dates[i] - dates[i - 1] = 1
    THEN [st EXCEPT !.current_streak = st.current_streak + 1]
    ELSE IF st.current_streak > st.longest_streak
         THEN [st EXCEPT !.longest_streak = st.current_streak,
                         !.longest_start = st.current_start,
                         !.longest_end = dates[i - 1],
                         !.current_streak = 1,
                         !.current_start = dates[i]]
         ELSE [st EXCEPT !.current_streak = 1, !.current_start = dates[i]]

RECURSIVE LongestLoop(_, _, _)
LongestLoop(dates, i, st) ==
    IF i > Len(dates) THEN st
    ELSE LongestLoop(dates, i + 1, LongestStep(dates, i, st))

\* find_longest_active_streak, for a table with at least one date.
find_longest_active_streak(df) ==
    LET dates == UniqueDates(df)
        st == LongestLoop(dates, 2,
                          [longest_streak |-> 1, current_streak |-> 1,
                           longest_start |-> dates[1], longest_end |-> dates[1],
                           current_start |-> dates[1]])
        final == IF st.current_streak > st.longest_streak
                 THEN [st EXCEPT !.longest_streak = st.current_streak,
                                 !.longest_start = st.current_start,
                                 !.longest_end = dates[Len(dates)]]
                 ELSE st
    IN  [max_streak |-> final.longest_streak,
         max_start |-> strftime(final.longest_start),
         max_end |-> strftime(final.longest_end)]

-----------------------------------------------------------------------------
(* MessengerAnalyzer.analyze *)

\* round(1) of n / d, in tenths: numpy rounds a tie to the even digit.
round1(n, d) ==
    LET q == (10 * n) \div d
        r == (10 * n) % d
    IN  IF 2 * r < d THEN q
        ELSE IF 2 * r > d THEN q + 1
        ELSE IF q % 2 = 0 THEN q ELSE q + 1

\* self.messages.groupby('date').size().mean().round(1), in tenths; the mean
\* of no group size at all is NaN.
avg_messages_per_day(msgs) ==
    IF msgs = <<>>
    THEN [na |-> TRUE, tenths |-> 0]
    ELSE [na |-> FALSE,
          tenths |-> round1(Len(msgs), Cardinality({m.date : m \in Range(msgs)}))]

\* An analyze() that returns on every input.
AnalyzeOutcomesAlwaysReturn(msgs, reacts) == {NoError}

\* How analyze() can end: NoError, or the exception raised.  With no reaction
\* rows the pivot table of _analyze_reactions_received has nothing to add
\* margins to: pivot_table(margins=True) raises ValueError, or returns a table
\* without the 'All' column and sort_values(by='All') raises KeyError,
\* depending on the pandas release.  With no message at all the mean of the
\* empty group sizes is a float NaN, whose round(1) can raise AttributeError
\* before that.
AnalyzeOutcomes(msgs, reacts) ==
    IF reacts # <<>> THEN {NoError}
    ELSE IF msgs = <<>> THEN {"AttributeError", "ValueError", "KeyError"}
    ELSE {"ValueError", "KeyError"}

\* word_counts = self._get_word_counts(min_word_length=3)
DefaultMinWordLength == 3

\* The ChatStats analyze() returns when it raises nothing.
ChatStats(msgs, reacts) ==
    [num_messages |-> Len(msgs),
     num_words |-> SumSeq([i \in DOMAIN msgs |-> msgs[i].num_words]),
     avg_messages_per_day |-> avg_messages_per_day(msgs),
     person_stats |-> get_person_stats(msgs, reacts),
     hourly_stats |-> analyze_hourly_patterns(msgs),
     word_counts |-> get_word_counts(msgs, DefaultMinWordLength),
     received_reaction_stats |-> analyze_reactions_received(reacts),
     sent_reaction_stats |-> analyze_reactions_sent(reacts),
     messages_by_user_by_day |-> analyze_activity_patterns(msgs)]

-----------------------------------------------------------------------------
(* The application: data directories, the loader and st.session_state *)

\* The paths the user can enter, and the titles a chat can carry.
DataDirs == {"d1", "d2"}

ChatTitles == {"A", "B"}

\* The orders in which iterdir() can list the chat folders of a directory.
FolderOrders == {<<"A", "B">>, <<"B", "A">>}

\* A session value that is None, and one that is set.
None == [na |-> TRUE, value |-> <<>>]

Some(v) == [na |-> FALSE, value |-> v]

\* A chat folder of a data directory: whether it is there, the table
\* process_chat_folder makes of its files, or that its files hold a title
\* and no message (to_dataframe then raises KeyError).
NoChat == [exists |-> FALSE, loads |-> FALSE, messages_df |-> <<>>]

EmptyExport == [exists |-> TRUE, loads |-> FALSE, messages_df |-> <<>>]

ChatFolder(df) ==
    [exists |-> TRUE, loads |-> TRUE,
     messages_df |-> [i \in DOMAIN df |-> [df[i] EXCEPT !.message_id = i - 1]]]

\* The exports of the model: a message of Alice with a reaction of Bob; a
\* message of Bob with a reaction of Alice followed by a message of Alice; a
\* message without any reaction, whose analysis raises; an export without
\* messages.
ExportedChats ==
    {ChatFolder(<<Message("Alice", DefaultContent, FALSE,
                          ReactionList(<<Reaction("Bob", "heart")>>), 1, 0)>>),
     ChatFolder(<<Message("Bob", DefaultContent, FALSE,
                          ReactionList(<<Reaction("Alice", "heart")>>), 1, 0),
                  Message("Alice", DefaultContent, FALSE, NaReactions, 1, 1)>>),
     ChatFolder(<<Message("Alice", DefaultContent, FALSE, NaReactions, 1, 0)>>),
     EmptyExport}

\* self._chat_sizes[title]: the messages of the chat's files.
chat_size(folders, title) == Len(folders[title].messages_df)

RECURSIVE InsertBySize(_, _, _)
InsertBySize(folders, sorted, title) ==
    IF sorted = <<>> THEN <<title>>
    ELSE IF chat_size(folders, Head(sorted)) >= chat_size(folders, title)
         THEN <<Head(sorted)>> \o InsertBySize(folders, Tail(sorted), title)
         ELSE <<title>> \o sorted

\* MessengerDataLoader.chat_names: the titles found in the directory, largest
\* chat first; sorted(reverse=True) keeps chats of equal size in the order
\* the folders were listed.
RECURSIVE SortBySize(_, _)
SortBySize(folders, titles) ==
    IF titles = <<>> THEN <<>>
    ELSE InsertBySize(folders,
                      SortBySize(folders, SubSeq(titles, 1, Len(titles) - 1)),
                      titles[Len(titles)])

chat_names(folders, order) ==
    SortBySize(folders, SelectSeq(order, LAMBDA t : folders[t].exists))

\* MessengerDataLoader(data_dir): the directory and the chat mappings read
\* from it.
MessengerDataLoader(folders, data_dir, order) ==
    [parent_dir |-> data_dir, chat_names |-> chat_names(folders, order)]

\* initialize_session_state(), with the two keyed widgets of main(): the
\* text input, and the select box with the options it was last drawn with.
InitialSessionState ==
    [loader |-> None,
     messages |-> None,
     chat_stats |-> None,
     current_chat |-> None,
     data_dir |-> None,
     message_dir_input |-> "",
     chat_selector |-> [options |-> <<>>, value |-> None]]

\* load_data(data_dir)
load_data(state, folders, data_dir, order) ==
    IF state.loader.na \/ state.data_dir # Some(data_dir)
    THEN [state EXCEPT !.loader = Some(MessengerDataLoader(folders, data_dir, order)),
                       !.data_dir = Some(data_dir)]
    ELSE state

\* What st.selectbox can return: nothing without options; the stored choice
\* when the options still hold it, or the first option; once the options
\* have changed, the release of the library decides between the two.
selectbox(options, widget) ==
    IF options = <<>> THEN {None}
    ELSE IF widget.value.na \/ widget.value.value \notin Range(options)
         THEN {Some(options[1])}
    ELSE IF widget.options = options THEN {widget.value}
    ELSE {widget.value, Some(options[1])}

\* process_chat skips the chat it holds already.
process_chat_skips(state, chat_title) ==
    state.current_chat = Some(chat_title) /\ ~state.messages.na

\* The ways process_chat(chat_title) can end on a chat folder: the session
\* it leaves and the exception it raises.  The table and the title are
\* stored before the analysis runs; chat_stats is assigned only when
\* analyze() returns.
process_chat(state, chat, chat_title) ==
    IF process_chat_skips(state, chat_title)
    THEN {[state |-> state, error |-> NoError]}
    ELSE IF ~chat.loads
    THEN {[state |-> state, error |-> "KeyError"]}
    ELSE LET stored == [state EXCEPT !.messages = Some(chat.messages_df),
                                     !.current_chat = Some(chat_title)]
             msgs == FilterMessages(chat.messages_df)
             reacts == extract_reactions(msgs)
         IN  {[state |-> stored, error |-> e] :
                 e \in ConstructOutcomes(msgs) \ {NoError}}
             \cup
             IF NoError \in ConstructOutcomes(msgs)
             THEN {[state |-> IF e = NoError
                              THEN [stored EXCEPT
                                       !.chat_stats = Some(ChatStats(msgs, reacts))]
                              ELSE stored,
                    error |-> e] : e \in AnalyzeOutcomes(msgs, reacts)}
             ELSE {}

-----------------------------------------------------------------------------
(* The state machine *)

NoValue == <<>>

\* The analyzer is built and its last call, if any, has returned.
Ready == pc \in {"constructed", "returned"}

Init ==
    /\ disk = [d \in DataDirs |-> [t \in ChatTitles |-> NoChat]]
    /\ session_state = InitialSessionState
    /\ chats = <<>>
    /\ messages_df = <<>>
    /\ pc = "input"
    /\ messages = <<>>
    /\ reactions = <<>>
    /\ call = ""
    /\ arg = NaContent
    /\ ret = NoValue
    /\ error = NoError

\* The loader appends one more row to the table; message_id is its position.
LoadMessage(Rows, max) ==
    /\ pc = "input"
    /\ Len(messages_df) < max
    /\ \E m \in Rows :
          messages_df' = Append(messages_df,
                                [m EXCEPT !.message_id = Len(messages_df)])
    /\ UNCHANGED <<disk, session_state, chats, pc, messages, reactions, call, arg, ret, error>>

\* analyser = MessengerAnalyzer(messages_df)
Construct ==
    /\ pc = "input"
    /\ call' = "__init__"
    /\ \E outcome \in ConstructOutcomes(FilterMessages(messages_df)) :
          IF outcome # NoError
          THEN /\ pc' = "raised"
               /\ error' = outcome
               /\ UNCHANGED <<messages, reactions>>
          ELSE /\ pc' = "constructed"
               /\ messages' = FilterMessages(messages_df)
               /\ reactions' = extract_reactions(FilterMessages(messages_df))
               /\ UNCHANGED error
    /\ messages_df' = CallerTableAfterInit(messages_df)
    /\ UNCHANGED <<disk, session_state, chats, arg, ret>>

\* analyser.analyze()
Analyze ==
    /\ Ready
    /\ call' = "analyze"
    /\ \E outcome \in AnalyzeOutcomes(messages, reactions) :
          IF outcome # NoError
          THEN /\ pc' = "raised"
               /\ error' = outcome
               /\ UNCHANGED ret
          ELSE /\ pc' = "returned"
               /\ ret' = ChatStats(messages, reactions)
               /\ UNCHANGED error
    /\ UNCHANGED <<disk, session_state, chats, messages_df, messages, reactions, arg>>

\* analyser._analyze_reactions()
AnalyzeReactions ==
    /\ pc = "constructed"
    /\ call' = "_analyze_reactions"
    /\ pc' = "returned"
    /\ ret' = analyze_reactions(reactions)
    /\ UNCHANGED <<disk, session_state, chats, messages_df, messages, reactions, arg, error>>

\* analyser._analyze_hourly_patterns()
AnalyzeHourlyPatterns ==
    /\ pc = "constructed"
    /\ call' = "_analyze_hourly_patterns"
    /\ pc' = "returned"
    /\ ret' = analyze_hourly_patterns(messages)
    /\ UNCHANGED <<disk, session_state, chats, messages_df, messages, reactions, arg, error>>

\* analyser.get_streak_info(): dates[0] raises IndexError when no date is left.
GetStreakInfo ==
    /\ Ready
    /\ call' = "get_streak_info"
    /\ IF UniqueDates(messages) = <<>>
       THEN /\ pc' = "raised"
            /\ error' = "IndexError"
            /\ UNCHANGED ret
       ELSE /\ pc' = "returned"
            /\ ret' = get_streak_info(messages)
            /\ UNCHANGED error
    /\ UNCHANGED <<disk, session_state, chats, messages_df, messages, reactions, arg>>

\* find_longest_active_streak(messages_df), the module-level function.
FindLongestActiveStreak ==
    /\ pc = "input"
    /\ call' = "find_longest_active_streak"
    /\ IF UniqueDates(messages_df) = <<>>
       THEN /\ pc' = "raised"
            /\ error' = "IndexError"
            /\ UNCHANGED ret
       ELSE /\ pc' = "returned"
            /\ ret' = find_longest_active_streak(messages_df)
            /\ UNCHANGED error
    /\ UNCHANGED <<disk, session_state, chats, messages_df, messages, reactions, arg>>

\* The texts of at most n characters.
RECURSIVE Texts(_)
Texts(n) ==
    IF n = 0 THEN {<<>>}
    ELSE LET shorter == Texts(n - 1)
         IN  shorter \cup {Append(t, c) : t \in shorter, c \in CharChoices}

\* "HELLO world TEST" and a lone "I".
ScenarioTexts ==
    {<<"H", "E", "L", "L", "O", " ", "w", "o", "r", "l", "d", " ", "T", "E", "S", "T">>,
     <<"I">>}

TextInputs ==
    {NaContent} \cup {Content(t) : t \in Texts(MaxTextLen) \cup ScenarioTexts}

\* analyser._count_shouted_words(text)
CountShoutedWords ==
    /\ pc = "constructed"
    /\ call' = "_count_shouted_words"
    /\ pc' = "returned"
    /\ \E text \in TextInputs :
          /\ arg' = text
          /\ ret' = count_shouted_words(text)
    /\ UNCHANGED <<disk, session_state, chats, messages_df, messages, reactions, error>>

\* The export holds one more character at the end of its last message's text;
\* the loader counts the words of the longer text.
AppendChar ==
    /\ pc = "input"
    /\ messages_df # <<>>
    /\ ~messages_df[Len(messages_df)].content.na
    /\ TotalChars(messages_df) < MaxWordChars
    /\ \E c \in WordChars :
          LET last == messages_df[Len(messages_df)]
              text == Append(last.content.chars, c)
          IN  messages_df' =
                 [messages_df EXCEPT ![Len(messages_df)] =
                     [last EXCEPT !.content = Content(text),
                                  !.num_words = Len(split(text))]]
    /\ UNCHANGED <<disk, session_state, chats, pc, messages, reactions, call, arg, ret, error>>

\* analyser._get_word_counts(min_word_length)
GetWordCounts ==
    /\ pc = "constructed"
    /\ call' = "_get_word_counts"
    /\ pc' = "returned"
    /\ \E min_word_length \in 1 .. MaxMinWordLength :
          /\ arg' = min_word_length
          /\ ret' = get_word_counts(messages, min_word_length)
    /\ UNCHANGED <<disk, session_state, chats, messages_df, messages, reactions, error>>

\* The export holds one more reaction record on its last message.
AddReaction(Records, max) ==
    /\ pc = "input"
    /\ messages_df # <<>>
    /\ ~messages_df[Len(messages_df)].is_reaction
    /\ TotalReactions(messages_df) < max
    /\ \E r \in Records :
          messages_df' =
             [messages_df EXCEPT ![Len(messages_df)].reactions =
                 ReactionList(Append(@.items, r))]
    /\ UNCHANGED <<disk, session_state, chats, pc, messages, reactions, call, arg, ret, error>>

\* analyser._analyze_reactions_received()
AnalyzeReactionsReceived ==
    /\ pc = "constructed"
    /\ call' = "_analyze_reactions_received"
    /\ \E outcome \in CrosstabOutcomes(reactions) :
          IF outcome # NoError
          THEN /\ pc' = "raised"
               /\ error' = outcome
               /\ UNCHANGED ret
          ELSE /\ pc' = "returned"
               /\ ret' = analyze_reactions_received(reactions)
               /\ UNCHANGED error
    /\ UNCHANGED <<disk, session_state, chats, messages_df, messages, reactions, arg>>

\* analyser._analyze_reactions_sent()
AnalyzeReactionsSent ==
    /\ pc = "constructed"
    /\ call' = "_analyze_reactions_sent"
    /\ \E outcome \in CrosstabOutcomes(reactions) :
          IF outcome # NoError
          THEN /\ pc' = "raised"
               /\ error' = outcome
               /\ UNCHANGED ret
          ELSE /\ pc' = "returned"
               /\ ret' = analyze_reactions_sent(reactions)
               /\ UNCHANGED error
    /\ UNCHANGED <<disk, session_state, chats, messages_df, messages, reactions, arg>>

\* show_most_received_reactions(chat_stats.received_reaction_stats), for the
\* chat_stats of an analysis that returned: the rows handed to the chart.
ShowMostReceivedReactions ==
    /\ pc = "constructed"
    /\ reactions # <<>>
    /\ call' = "show_most_received_reactions"
    /\ pc' = "returned"
    /\ ret' = top5(analyze_reactions_received(reactions))
    /\ UNCHANGED <<disk, session_state, chats, messages_df, messages, reactions, arg, error>>

\* show_most_sent_reactions(chat_stats.sent_reaction_stats)
ShowMostSentReactions ==
    /\ pc = "constructed"
    /\ reactions # <<>>
    /\ call' = "show_most_sent_reactions"
    /\ pc' = "returned"
    /\ ret' = top5(analyze_reactions_sent(reactions))
    /\ UNCHANGED <<disk, session_state, chats, messages_df, messages, reactions, arg, error>>

\* analyser._analyze_activity_patterns()
AnalyzeActivityPatterns ==
    /\ pc = "constructed"
    /\ call' = "_analyze_activity_patterns"
    /\ \E outcome \in ActivityOutcomes(messages) :
          IF outcome # NoError
          THEN /\ pc' = "raised"
               /\ error' = outcome
               /\ UNCHANGED ret
          ELSE /\ pc' = "returned"
               /\ ret' = analyze_activity_patterns(messages)
               /\ UNCHANGED error
    /\ UNCHANGED <<disk, session_state, chats, messages_df, messages, reactions, arg>>

\* The conversation has one more message-batch file.
NewChatFile ==
    /\ pc = "input"
    /\ Len(chats) < MaxFiles
    /\ chats' = Append(chats, <<>>)
    /\ UNCHANGED <<disk, session_state, messages_df, pc, messages, reactions,
                   call, arg, ret, error>>

\* The last file holds one more message.
AddRawMessage ==
    /\ pc = "input"
    /\ chats # <<>>
    /\ Len(Flatten(chats)) < MaxRawMsgs
    /\ \E raw \in RawMsgs :
          chats' = [chats EXCEPT ![Len(chats)] = Append(@, raw)]
    /\ UNCHANGED <<disk, session_state, messages_df, pc, messages, reactions,
                   call, arg, ret, error>>

\* messages_df = loader.combine_chats(chats, remove_reactions)
CombineChats ==
    /\ pc = "input"
    /\ call' = "combine_chats"
    /\ \E remove_reactions \in BOOLEAN :
          /\ arg' = remove_reactions
          /\ \E outcome \in CombineOutcomes(chats) :
                IF outcome # NoError
                THEN /\ pc' = "raised"
                     /\ error' = outcome
                     /\ UNCHANGED messages_df
                ELSE /\ pc' = "returned"
                     /\ messages_df' = combine_chats(chats, remove_reactions)
                     /\ UNCHANGED error
    /\ UNCHANGED <<disk, session_state, chats, messages, reactions, ret>>

\* A chat is exported into a data directory before the application starts.
ExportChat ==
    /\ call = ""
    /\ \E d \in DataDirs, t \in ChatTitles, chat \in ExportedChats :
          /\ disk[d][t] = NoChat
          /\ disk' = [disk EXCEPT ![d][t] = chat]
    /\ UNCHANGED <<session_state, chats, messages_df, pc, messages, reactions,
                   call, arg, ret, error>>

\* One run of main(), with the text input holding message_dir and the select
\* box in the state widget.  ret is the ChatStats handed to
\* create_wrapped_presentation (None when nothing is shown), error the
\* exception reported by st.error.  Without a directory the select box is not
\* drawn and its state is dropped.
main(message_dir, widget) ==
    /\ call' = "main"
    /\ IF message_dir = ""
       THEN /\ session_state' =
                  [session_state EXCEPT
                      !.message_dir_input = message_dir,
                      !.chat_selector = [options |-> <<>>, value |-> None]]
            /\ ret' = None
            /\ error' = NoError
       ELSE \E order \in FolderOrders :
              LET loaded == load_data(session_state, disk[message_dir],
                                      message_dir, order)
                  options == loaded.loader.value.chat_names
              IN  \E chat_title \in selectbox(options, widget) :
                    LET drawn == [loaded EXCEPT
                                     !.message_dir_input = message_dir,
                                     !.chat_selector = [options |-> options,
                                                        value |-> chat_title]]
                    IN  IF chat_title.na
                        THEN /\ session_state' = drawn
                             /\ ret' = None
                             /\ error' = NoError
                        ELSE \E end \in process_chat(
                                   drawn,
                                   disk[loaded.loader.value.parent_dir][chat_title.value],
                                   chat_title.value) :
                               /\ session_state' = end.state
                               /\ error' = end.error
                               /\ ret' = IF end.error = NoError
                                         THEN end.state.chat_stats
                                         ELSE None
    /\ UNCHANGED <<disk, chats, messages_df, pc, messages, reactions, arg>>

\* The user enters another path, and the script runs again.
EnterMessageDir ==
    \E d \in DataDirs \cup {""} :
       /\ d # session_state.message_dir_input
       /\ main(d, session_state.chat_selector)

\* The user picks another chat of the select box, and the script runs again.
SelectChat ==
    \E t \in Range(session_state.chat_selector.options) :
       /\ Some(t) # session_state.chat_selector.value
       /\ main(session_state.message_dir_input,
               [session_state.chat_selector EXCEPT !.value = Some(t)])

\* The page is opened, or the script is run again with the widgets as they are.
Rerun ==
    /\ call \in {"", "main"}
    /\ main(session_state.message_dir_input, session_state.chat_selector)

\* Tables with reactions: construction, the reaction summary and analyze().
Next ==
    \/ LoadMessage(ReactionMsgs, MaxMsgs)
    \/ Construct
    \/ AnalyzeReactions
    \/ Analyze

Spec == Init /\ [][Next]_vars

\* Tables that vary in the hour of day.
NextHourly ==
    \/ LoadMessage(HourMsgs, MaxMsgs)
    \/ Construct
    \/ AnalyzeHourlyPatterns

SpecHourly == Init /\ [][NextHourly]_vars

\* Tables that vary in their dates.
NextStreak ==
    \/ LoadMessage(DatedMsgs, MaxDatedMsgs)
    \/ Construct
    \/ GetStreakInfo
    \/ FindLongestActiveStreak

SpecStreak == Init /\ [][NextStreak]_vars

\* The word counter applied to texts.
NextShout ==
    \/ Construct
    \/ CountShoutedWords

SpecShout == Init /\ [][NextShout]_vars

\* Tables with reactions: construction, then analyze() and get_streak_info()
\* in any order.
NextFrame ==
    \/ LoadMessage(ReactionMsgs, MaxMsgs)
    \/ Construct
    \/ Analyze
    \/ GetStreakInfo

SpecFrame == Init /\ [][NextFrame]_vars

\* Tables that vary in sender and date, their rows in the order of time.
NextActivity ==
    \/ LoadMessage(RowsInOrder(messages_df, ActivityMsgs), MaxActivityMsgs)
    \/ Construct
    \/ AnalyzeActivityPatterns

SpecActivity == Init /\ [][NextActivity]_vars

\* Tables whose reactions carry their times: the extraction in __init__.
NextExtract ==
    \/ LoadMessage(RowsInOrder(messages_df, ExtractMsgs), MaxExtractMsgs)
    \/ AddReaction(TimedReactions, MaxExtractReacts)
    \/ Construct

SpecExtract == Init /\ [][NextExtract]_vars

\* Tables whose reactions vary in emoji: the cross-tabulations and the views
\* the application charts.
NextCross ==
    \/ LoadMessage(CrossMsgs, MaxCrossMsgs)
    \/ AddReaction(CrossReactions, MaxCrossReacts)
    \/ Construct
    \/ AnalyzeReactionsReceived
    \/ AnalyzeReactionsSent
    \/ ShowMostReceivedReactions
    \/ ShowMostSentReactions

SpecCross == Init /\ [][NextCross]_vars

\* Batch files, combined into one message table.
NextLoader ==
    \/ NewChatFile
    \/ AddRawMessage
    \/ CombineChats

SpecLoader == Init /\ [][NextLoader]_vars

\* Tables that vary in their texts: the word counts and analyze().
NextWords ==
    \/ LoadMessage(WordMsgs, MaxWordMsgs)
    \/ AppendChar
    \/ Construct
    \/ GetWordCounts
    \/ Analyze

SpecWords == Init /\ [][NextWords]_vars

\* The application: chats on disk, and reruns of main() on user input.
NextSession ==
    \/ ExportChat
    \/ EnterMessageDir
    \/ SelectChat
    \/ Rerun

SpecSession == Init /\ [][NextSession]_vars

-----------------------------------------------------------------------------
(* Properties *)

AnalyzeReturned == pc = "returned" /\ call = "analyze"

ReactionsReturned == pc = "returned" /\ call = "_analyze_reactions"

HourlyReturned == pc = "returned" /\ call = "_analyze_hourly_patterns"

StreakReturned == pc = "returned" /\ call = "get_streak_info"

LongestReturned == pc = "returned" /\ call = "find_longest_active_streak"

ShoutedReturned == pc = "returned" /\ call = "_count_shouted_words"

\* The rows of the caller's table that are no reaction notification.
NonNotifications == SelectSeq(messages_df, LAMBDA m : ~m.is_reaction)

RowsLabelled(rows, p) == SelectSeq(rows, LAMBDA row : row.sender_name = p)

\* The reaction rows p sent, and those p received.
SentBy(p) == {i \in DOMAIN reactions : reactions[i].reactor = p}

ReceivedBy(p) == {i \in DOMAIN reactions : reactions[i].recipient = p}

\* C1: the messages_sent of the rows of ChatStats.person_stats add up to
\* ChatStats.num_messages, the number of messages that are no reaction
\* notification, whoever sent or received reactions.
C1_MessagesSentSumToTotal ==
    AnalyzeReturned =>
        /\ ret.num_messages = Len(NonNotifications)
        /\ SumSeq([i \in DOMAIN ret.person_stats |->
                      ret.person_stats[i].messages_sent]) = ret.num_messages

\* C2: the per-person reaction summary has exactly one row, labelled with the
\* person's own name, for every person who sent or received a reaction; one
\* who only sent has reactions_received = 0, one who only received has
\* reactions_sent = 0.
C2_OneRowPerReactionPerson ==
    ReactionsReturned =>
        /\ Len(ret) = Cardinality({p \in Persons : SentBy(p) \cup ReceivedBy(p) # {}})
        /\ \A p \in Persons :
              SentBy(p) \cup ReceivedBy(p) # {} =>
                  /\ Len(RowsLabelled(ret, p)) = 1
                  /\ ReceivedBy(p) = {} =>
                        RowsLabelled(ret, p)[1].reactions_received = 0
                  /\ SentBy(p) = {} =>
                        RowsLabelled(ret, p)[1].reactions_sent = 0

\* C3: over the rows of the per-person reaction summary, reactions_sent and
\* reactions_received both add up to the number of exploded reaction rows.
C3_ReactionSumsEqualTotal ==
    ReactionsReturned =>
        /\ SumSeq([i \in DOMAIN ret |-> ret[i].reactions_sent]) = Len(reactions)
        /\ SumSeq([i \in DOMAIN ret |-> ret[i].reactions_received]) = Len(reactions)

\* A summary with a row for a person who only received and one for a person
\* who only sent, over more than one reaction.
C3_Witness ==
    /\ ReactionsReturned
    /\ Len(reactions) >= 2
    /\ \E p, q \in Persons :
          /\ SentBy(p) = {} /\ ReceivedBy(p) # {}
          /\ SentBy(q) # {} /\ ReceivedBy(q) = {}

\* C4: the hourly table of a non-empty message table has exactly 24 rows, one
\* per hour 0..23, and an hour without message holds 0 for every sender and
\* in 'All'.
C4_HourlyHas24Rows ==
    (HourlyReturned /\ messages # <<>>) =>
        /\ Len(ret) = HoursPerDay
        /\ \A h \in 0 .. (HoursPerDay - 1) :
              \E i \in DOMAIN ret :
                  /\ ret[i].hour = h
                  /\ ret[i].All = Cardinality({j \in DOMAIN messages :
                                                  messages[j].hour = h})

DateSet == {messages[i].date : i \in DOMAIN messages}

IsRun(D, a, n) == n >= 1 /\ \A k \in 0 .. (n - 1) : a + k \in D

LongestRun(D) == Max({n \in 1 .. Cardinality(D) : \E a \in D : IsRun(D, a, n)})

EarliestLongest(D) == Min({a \in D : IsRun(D, a, LongestRun(D))})

\* C6: get_streak_info returns the length of the longest run of consecutive
\* dates with the first and last date of the earliest such run, the last being
\* n - 1 days after the first; 2023-01-01, 2023-01-02, 2023-01-04 give
\* (2, 2023-01-01, 2023-01-02).
C6_LongestEarliestStreak ==
    StreakReturned =>
        /\ ret.max_streak = LongestRun(DateSet)
        /\ ret.max_start = strftime(EarliestLongest(DateSet))
        /\ ret.max_end = strftime(EarliestLongest(DateSet) + ret.max_streak - 1)
        /\ DateSet = {3, 4, 6} =>
              ret = [max_streak |-> 2, max_start |-> "2023-01-01",
                     max_end |-> "2023-01-02"]

\* The streak of messages on 2023-01-01, 2023-01-02 and 2023-01-04.
C6_Witness ==
    /\ StreakReturned
    /\ DateSet = {3, 4, 6}
    /\ ret.max_streak = 2
    /\ ret.max_start = "2023-01-01"
    /\ ret.max_end = "2023-01-02"

\* C7: get_streak_info does not fail on zero or one distinct date: it returns
\* length 1, and start = end = d for the one date d.
C7_MinimalInputStreakIsOne ==
    (call = "get_streak_info" /\ Cardinality(DateSet) <= 1) =>
        /\ pc = "returned"
        /\ ret.max_streak = 1
        /\ \A d \in DateSet : ret.max_start = strftime(d) /\ ret.max_end = strftime(d)

\* self.messages, and the caller's table, with one more message on day d.
WithDate(msgs, d) ==
    Append(msgs, [sender_name |-> "Alice", date |-> d])

\* C8: adding a date never shortens the streak: for every date d the streak
\* of the dates with d added is at least the streak of the dates.
C8_StreakMonotone ==
    /\ StreakReturned =>
          \A d \in 1 .. MaxDay :
              get_streak_info(WithDate(messages, d)).max_streak >= ret.max_streak
    /\ LongestReturned =>
          \A d \in 1 .. MaxDay :
              find_longest_active_streak(WithDate(messages_df, d)).max_streak
                  >= ret.max_streak

\* A date that joins two runs: the streak grows by more than one.
C8_Witness ==
    /\ StreakReturned
    /\ \E d \in 1 .. MaxDay :
          get_streak_info(WithDate(messages, d)).max_streak > ret.max_streak + 1

\* The persons with a reaction to a message of their own.
SelfReactors == {p \in Persons : SentBy(p) \cap ReceivedBy(p) # {}}

\* C9: a self-reaction counts once in its person's reactions_sent and once in
\* that person's reactions_received, and its exploded row has
\* pair = (person, person).
C9_SelfReactionCountedBothWays ==
    /\ \A i \in DOMAIN reactions :
          reactions[i].reactor = reactions[i].recipient =>
              reactions[i].pair = <<reactions[i].reactor, reactions[i].reactor>>
    /\ ReactionsReturned =>
          \A p \in SelfReactors :
              /\ Len(RowsLabelled(ret, p)) = 1
              /\ RowsLabelled(ret, p)[1].reactions_sent =
                    Cardinality(SentBy(p) \cap ReceivedBy(p))
                    + Cardinality(SentBy(p) \ ReceivedBy(p))
              /\ RowsLabelled(ret, p)[1].reactions_received =
                    Cardinality(SentBy(p) \cap ReceivedBy(p))
                    + Cardinality(ReceivedBy(p) \ SentBy(p))

\* A summary over a self-reaction and a reaction by somebody else.
C9_Witness ==
    /\ ReactionsReturned
    /\ \E p \in SelfReactors :
          /\ ReceivedBy(p) \ SentBy(p) # {}
          /\ RowsLabelled(ret, p)[1].reactions_sent = 1
          /\ RowsLabelled(ret, p)[1].reactions_received = 2

\* The words of the text argument: the maximal runs of characters that are no
\* whitespace, as <<first, last>> positions.
WordSpans ==
    LET c == arg.chars
    IN  {s \in (DOMAIN c) \X (DOMAIN c) :
            /\ s[1] <= s[2]
            /\ \A k \in s[1] .. s[2] : c[k] \notin Whitespace
            /\ s[1] = 1 \/ c[s[1] - 1] \in Whitespace
            /\ s[2] = Len(c) \/ c[s[2] + 1] \in Whitespace}

WordCountsReturned == pc = "returned" /\ call = "_get_word_counts"

\* C11: every key of the mapping _get_word_counts(min_word_length) returns is
\* at least min_word_length characters long, is no stop word and is made of
\* letters only.
C11_WordCountKeysFiltered ==
    WordCountsReturned =>
        \A i \in DOMAIN ret :
            /\ Len(ret[i].word) >= arg
            /\ ret[i].word \notin stop_words
            /\ \A k \in DOMAIN ret[i].word :
                  ret[i].word[k] \in UpperLetters \cup LowerLetters

\* "heh he h1 h" counted with min_word_length = 2: "he" is a stop word, "h1"
\* holds a digit, "h" is short, and "heh" is the one key.
C11_Witness ==
    /\ WordCountsReturned
    /\ arg = 2
    /\ Len(messages) = 1
    /\ messages[1].content =
          Content(<<"h", "e", "h", " ", "h", "e", " ", "h", "1", " ", "h">>)
    /\ ret = <<[word |-> <<"h", "e", "h">>, count |-> 1]>>

\* C12: the counts of ChatStats.word_counts add up to at most
\* ChatStats.num_words, the sum of the whitespace-delimited word counts of the
\* analysed messages.
C12_WordCountsWithinNumWords ==
    AnalyzeReturned =>
        SumSeq([i \in DOMAIN ret.word_counts |-> ret.word_counts[i].count])
            <= ret.num_words

CombineReturned == pc = "returned" /\ call = "combine_chats"

\* The messages of the files that combine_chats(chats, arg) keeps.
KeptRaw ==
    SelectSeq(Flatten(chats), LAMBDA raw : ~(arg /\ is_reaction(raw.content)))

\* C15: the table combine_chats produces has one row per message kept, with
\* message_id exactly 0..n-1 in row order and timestamps that never decrease
\* as message_id grows, whether or not reaction notifications are removed.
C15_DenseIdsSortedTimestamps ==
    CombineReturned =>
        /\ Len(messages_df) = Len(KeptRaw)
        /\ \A i \in DOMAIN messages_df : messages_df[i].message_id = i - 1
        /\ \A i, j \in DOMAIN messages_df :
              messages_df[i].message_id < messages_df[j].message_id =>
                  messages_df[i].timestamp <= messages_df[j].timestamp

\* Two files, the first one starting later than the second, combined with a
\* reaction notification removed.
C15_Witness ==
    /\ CombineReturned
    /\ arg
    /\ Len(chats) = 2
    /\ Len(messages_df) >= 2
    /\ Len(messages_df) < Len(Flatten(chats))
    /\ chats[1][1].timestamp_ms > chats[2][1].timestamp_ms

ActivityReturned == pc = "returned" /\ call = "_analyze_activity_patterns"

\* The dates on which p sent a message, in order: p's own date series.
OwnDates(p) ==
    SortedInts({messages[i].date : i \in {j \in DOMAIN messages :
                                             messages[j].sender_name = p}})

\* The number of messages p sent on day d.
OwnCount(p, d) ==
    Cardinality({i \in DOMAIN messages :
                    messages[i].sender_name = p /\ messages[i].date = d})

\* C16: the cell for (date, sender) of the rolling activity table is the mean
\* of that sender's own daily counts over the trailing 7 entries of that
\* sender's date series (here its numerator, the sum of the 7 counts), and 0
\* for the first 6 entries of the series and for a date without message of
\* the sender: counts of different senders are never averaged together.
C16_RollingMeanPerSender ==
    ActivityReturned =>
        \A i \in DOMAIN ret : \A p \in DOMAIN ret[i].counts :
            LET series == OwnDates(p)
                at == {n \in DOMAIN series : series[n] = ret[i].date}
            IN  ret[i].counts[p] =
                    IF at = {} \/ (\E n \in at : n < RollingWindow)
                    THEN 0
                    ELSE SumSeq([j \in 1 .. RollingWindow |->
                            OwnCount(p, series[(CHOOSE n \in at : TRUE)
                                               - RollingWindow + j])])

\* C17: on a table that holds a reaction record, _extract_reactions yields
\* one row per reaction record: __init__ does not fail, whether or not some
\* message has a missing or an empty reaction list, the rows are as many as
\* the reaction lists of the messages that are no reaction notification are
\* long, and each row carries the message_id, the sender (as recipient) and
\* the timestamp of one such message.
C17_OneRowPerReactionRecord ==
    (call = "__init__" /\ TotalReactions(NonNotifications) > 0) =>
        /\ pc = "constructed"
        /\ Len(reactions) = TotalReactions(NonNotifications)
        /\ \A i \in DOMAIN reactions :
              \E k \in DOMAIN NonNotifications :
                  /\ NonNotifications[k].reactions.items # <<>>
                  /\ reactions[i].message_id = NonNotifications[k].message_id
                  /\ reactions[i].recipient = NonNotifications[k].sender_name
                  /\ reactions[i].message_timestamp = NonNotifications[k].timestamp

\* C20 as stated: the latency of every exploded reaction row is the reaction
\* time minus the message time in whole seconds modulo 86400, a number of
\* 0..86399.
C20_LatencyOfEveryRow ==
    \A i \in DOMAIN reactions :
        /\ ~reactions[i].reaction_timedelta_sec.na
        /\ reactions[i].reaction_timedelta_sec.sec \in 0 .. (SecondsPerDay - 1)
        /\ reactions[i].reaction_timedelta_sec.sec =
              ((reactions[i].reaction_timestamp.sec * MsPerSecond
                   - reactions[i].message_timestamp) \div MsPerSecond) % SecondsPerDay

\* C20 amended: the latency of every exploded row whose reaction record has a
\* timestamp is the reaction time minus the message time in whole seconds
\* modulo 86400: it lies in 0..86399, whole days are discarded, and a
\* reaction timed before its message gives 86400 minus the remainder, not a
\* negative value; the latency of a row whose record has no timestamp is
\* missing.
C20_LatencyOfTimedRows ==
    \A i \in DOMAIN reactions :
        IF reactions[i].reaction_timestamp.na
        THEN reactions[i].reaction_timedelta_sec.na
        ELSE /\ ~reactions[i].reaction_timedelta_sec.na
             /\ reactions[i].reaction_timedelta_sec.sec \in 0 .. (SecondsPerDay - 1)
             /\ reactions[i].reaction_timedelta_sec.sec =
                   ((reactions[i].reaction_timestamp.sec * MsPerSecond
                        - reactions[i].message_timestamp) \div MsPerSecond)
                       % SecondsPerDay

\* A reaction timed a second before the midnight at which its message was
\* sent half a second late, next to one timed a day and five seconds after:
\* latencies 86398 and 4.
C20_Witness ==
    /\ pc = "constructed"
    /\ \E i, j \in DOMAIN reactions :
          /\ reactions[i].message_timestamp = SecondsPerDay * MsPerSecond + MsPerSecond \div 2
          /\ reactions[i].reaction_timestamp = Time(SecondsPerDay - 1)
          /\ reactions[i].reaction_timedelta_sec.sec = SecondsPerDay - 2
          /\ reactions[j].message_timestamp = reactions[i].message_timestamp
          /\ reactions[j].reaction_timestamp = Time(2 * SecondsPerDay + 5)
          /\ reactions[j].reaction_timedelta_sec.sec = 4

ReceivedReturned == pc = "returned" /\ call = "_analyze_reactions_received"

SentReturned == pc = "returned" /\ call = "_analyze_reactions_sent"

\* The reaction rows of emoji e whose person in the given column is q.
ReactionsOf(e, column, q) ==
    {i \in DOMAIN reactions : reactions[i].emoji = e /\ reactions[i][column] = q}

\* The returned table is the cross-tabulation of the reaction rows by emoji
\* and by the person of the given column, with its margins, sorted.
IsCrosstab(column) ==
    LET people == {reactions[i][column] : i \in DOMAIN reactions}
        emojis == {reactions[i].emoji : i \in DOMAIN reactions}
        real == SelectSeq(ret, LAMBDA row : row.emoji # AllLabel)
        margin == SelectSeq(ret, LAMBDA row : row.emoji = AllLabel)
    IN  /\ {real[i].emoji : i \in DOMAIN real} = emojis
        /\ Len(real) = Cardinality(emojis)
        /\ Len(margin) = 1
        /\ \A i \in DOMAIN ret :
              /\ DOMAIN ret[i].counts = people
              /\ ret[i].All =
                    SumSeq([k \in DOMAIN SortedNames(people) |->
                               ret[i].counts[SortedNames(people)[k]]])
        /\ \A i \in DOMAIN real : \A q \in people :
              real[i].counts[q] = Cardinality(ReactionsOf(real[i].emoji, column, q))
        /\ \A q \in people :
              margin[1].counts[q] =
                  SumSeq([i \in DOMAIN real |-> real[i].counts[q]])
        /\ margin[1].All = Len(reactions)
        /\ \A i, j \in DOMAIN ret : i < j => ret[i].All >= ret[j].All

\* C18: in the received (emoji x recipient) and the sent (emoji x reactor)
\* cross-tabulation each cell is the number of reactions with that emoji for
\* that person (0 when none), the 'All' column is the sum of the person cells
\* of its row, the 'All' row holds the column sums, the grand total is the
\* number of reactions, and the rows come in non-increasing order of 'All'.
C18_CrosstabCountsAndMargins ==
    /\ ReceivedReturned => IsCrosstab("recipient")
    /\ SentReturned => IsCrosstab("reactor")

\* A received cross-tabulation of three reactions to the messages of two
\* people, in which the emoji that sorts last in the index has the larger
\* total and so comes before the other one.
C18_Witness ==
    /\ ReceivedReturned
    /\ Len(ret) = 3
    /\ DOMAIN ret[1].counts = Persons
    /\ ret[1].emoji = AllLabel /\ ret[1].All = 3
    /\ ret[2].emoji = "laugh" /\ ret[2].All = 2
    /\ ret[3].emoji = "heart" /\ ret[3].All = 1

ShowReturned ==
    pc = "returned"
    /\ call \in {"show_most_received_reactions", "show_most_sent_reactions"}

\* C19: the view the application charts (the cross-tabulation without its
\* first row and its last column, cut to five rows) leaves out the totals
\* row and the totals column and nothing else: it has a row for every emoji
\* that occurs (there are at most five) and none for 'All', also when only
\* one emoji occurs and its total equals the grand total.
C19_ViewDropsOnlyTotals ==
    ShowReturned =>
        /\ \A i \in DOMAIN ret : ret[i].emoji # AllLabel
        /\ \A k \in DOMAIN reactions :
              \E i \in DOMAIN ret : ret[i].emoji = reactions[k].emoji
        /\ \A i \in DOMAIN ret : "All" \notin DOMAIN ret[i]

-----------------------------------------------------------------------------
(* The statistics the application shows *)

\* main() has run and has shown a presentation.
Rendered == call = "main" /\ ~ret.na

\* The chat folder named by current_chat under the current data_dir.
CurrentChatFolder ==
    disk[session_state.data_dir.value][session_state.current_chat.value]

\* C21: whenever main() renders chat_stats, it is the analysis of the chat
\* named by current_chat as loaded from the current data_dir: no statistics of
\* a previously analysed chat after a failed analysis, none of the old
\* directory after the directory has changed.
C21_RenderedStatsOfCurrentChat ==
    Rendered =>
       /\ ~session_state.data_dir.na
       /\ ~session_state.current_chat.na
       /\ CurrentChatFolder.loads
       /\ LET msgs == FilterMessages(CurrentChatFolder.messages_df)
          IN  ret.value = ChatStats(msgs, extract_reactions(msgs))

====
